---- MODULE Spec2Model ----
(***************************************************************************)
(* Bulk session orchestrator of tira-order-auto: the bulk order run        *)
(* (OrderExecutor) and the bulk checkpoint run (CheckpointExecutor), both  *)
(* gated by an asyncio.Semaphore, over accounts resolved from a range.     *)
(* Every action is one await-free segment of a coroutine (asyncio runs     *)
(* the code between two awaits atomically); awaits on the session's own    *)
(* page are folded into the segment that follows them.                     *)
(***************************************************************************)
EXTENDS Integers, Sequences, FiniteSets, TLC

\* ---------------------------------------------------------------- bounds
MaxUsers == 2
MaxConc == 2
MaxReps == 2

\* checkpoint_executor.py:69  "... if config.concurrent_browsers > 0 else 5"
DefaultConcurrency == 5

Accounts == 1..MaxUsers

\* Optional[float] is a set: {} is None, {m} is the value m.
None == {}
Some(x) == {x}
TheValue(opt) == CHOOSE x \in opt : TRUE

\* Python truthiness of an Optional[float]: None and 0.0 are falsy.
Truthy(opt) == opt # None /\ opt # Some(0)

\* observed cart totals and configured ceilings (rupees, scaled)
CartTotals == {0, 1, 2}
CartCeilings == {None, Some(0), Some(1)}

VARIABLES
    kind,           \* "order" or "checkpoint": the workflow of this bulk task;
                    \* "api": a dispatch request at the control surface
    dispatch,       \* the dispatch request: what the Store holds of its
                    \* references, the reply, the background tasks added
    app,            \* the application process: "running" or "stopped"
    store,          \* the Store's database during the run: "up", or
                    \* "flaky" when its UPDATE statements may fail
    cred,           \* PREPARE_CREDENTIALS of one account: the stored
                    \* bundle, the prepared cookies, the step reached
    scope,          \* one AutomationLogger scope: where its `with` block
                    \* is, how it was left, the events it has emitted
    ws,             \* the WebSocketManager: its connections and the
                    \* position of the broadcast under way
    config,         \* OrderConfig / CheckpointConfig of the dispatch
    storeSize,      \* number of rows of tira_users
    users,          \* accounts resolved by get_users_by_range
    bpc,            \* position of execute_bulk_order / _run_bulk_check
    semaphore,      \* value of the run's asyncio.Semaphore
    pc,             \* position of each account's runner
    rep,            \* loop variable i + 1 of the repetition loop
    results,        \* local list `results` of execute_single_order
    ret,            \* value returned by execute_single_order
    context,        \* local `context` of execute_single_order is set
    page,           \* state of the session's page
    cart_total,     \* local `cart_total` of the current repetition
    error,          \* exception in flight in the current repetition
    calls,          \* driver steps invoked in the current repetition
    active_browsers,\* BrowserManager.active_browsers (session ids)
    open_browsers,  \* browser processes that are running
    orders,         \* Store: the Orders of each session, in creation order
    active_orders,  \* OrderExecutor.active_orders (order ids)
    bulk_results,   \* list returned by execute_bulk_order
    stats,          \* successful / failed / errors of BULK_COMPLETE
    error_msg,      \* the ERROR log broadcast by execute_bulk_order
    task,           \* CheckpointExecutor.active_tasks[task_id]
    ck_results,     \* CheckpointExecutor.results[task_id]
    response,       \* what the account-status fetch of each account met
    result,         \* local `result` of _check_single_user
    stored_points,  \* Store: tira_users.points of each account
    updated_fields, \* Store: columns of each account's row written by
                    \* update_tira_user
    reply           \* what get_task_status / get_results returned, while
                    \* no step of the task has followed the call

vars == <<kind, app, store, dispatch, ws, scope, cred, config, storeSize, users, bpc, semaphore, pc, rep, results,
          ret, context, page, cart_total, error, calls, active_browsers,
          open_browsers, orders, active_orders, bulk_results, stats,
          error_msg, task, ck_results, response, result, stored_points,
          updated_fields, reply>>

\* ------------------------------------------------------------- helpers
Range(s) == {s[i] : i \in 1..Len(s)}

Min(a, b) == IF a <= b THEN a ELSE b

\* a query that leaves out the OFFSET
get_users_without_offset(start_index, end_index, n) ==
    LET start == IF start_index < 1 THEN 1 ELSE start_index
        limit == end_index - start + 1
    IN  IF limit <= 0 THEN <<>>
        ELSE [k \in 1..Min(limit, n) |-> k]

\* TiraUserService.get_users_by_range: LIMIT/OFFSET over ORDER BY id ASC;
\* the store's ids are 1..storeSize.
get_users_by_range(start_index, end_index, n) ==
    LET start == IF start_index < 1 THEN 1 ELSE start_index
        offset == start - 1
        limit == end_index - start + 1
    IN  IF limit <= 0 THEN <<>>
        ELSE [k \in 1..(IF n - offset < 0 THEN 0 ELSE Min(limit, n - offset))
                  |-> offset + k]

NoReturn == [type |-> "none"]
ListReturn(items) == [type |-> "list", items |-> items]
DictReturn(err) == [type |-> "dict", status |-> "failed", error |-> err]

\* ------------------------------------------------------------- Init
OrderConfigs ==
    [user_range_start : 1..MaxUsers,
     user_range_end : 1..MaxUsers,
     concurrent_browsers : 1..MaxConc,
     repetition_count : 1..MaxReps,
     mode : {"full_automation", "test_login"},
     payment_method : {"cash_on_delivery", "card"},
     card_ref : {"none", "card_id", "card_details"},
     max_cart_value : CartCeilings]

\* Configurations that differ: a test_login run reads none of the order
\* fields, and a non-card payment reads no card reference. The card
\* reference and the ceiling are read at different steps and are varied
\* one at a time.
OrderConfigOk(c) ==
    /\ c.payment_method = "cash_on_delivery" => c.card_ref = "none"
    /\ c.payment_method = "card" => c.max_cart_value = None
    /\ c.mode = "test_login" =>
          /\ c.payment_method = "cash_on_delivery"
          /\ c.max_cart_value = None
          /\ c.repetition_count = 1

\* no read call is outstanding
NoReply == [call |-> "none"]

\* _check_single_user has no result yet
NoResult == [status |-> "none", points |-> "None", account_name |-> "None",
             error |-> "None"]

\* tira_users.points: NULL, or the points saved by an earlier check
StoredPoints == {"None", "7"}

InitRunners ==
    /\ users = <<>>
    /\ bpc = "init"
    /\ semaphore = 0
    /\ pc = [a \in Accounts |-> "idle"]
    /\ rep = [a \in Accounts |-> 0]
    /\ results = [a \in Accounts |-> <<>>]
    /\ ret = [a \in Accounts |-> NoReturn]
    /\ context = [a \in Accounts |-> FALSE]
    /\ page = [a \in Accounts |-> "none"]
    /\ cart_total = [a \in Accounts |-> 0]
    /\ error = [a \in Accounts |-> "none"]
    /\ calls = [a \in Accounts |-> {}]
    /\ active_browsers = {}
    /\ open_browsers = {}
    /\ orders = [a \in Accounts |-> <<>>]
    /\ active_orders = <<>>
    /\ bulk_results = <<>>
    /\ stats = [successful |-> 0, failed |-> 0, errors |-> 0, total |-> 0]
    /\ error_msg = "None"
    /\ task = [status |-> "not_found"]
    /\ ck_results = <<>>
    /\ response = [a \in Accounts |-> "none"]
    /\ result = [a \in Accounts |-> NoResult]
    /\ updated_fields = [a \in Accounts |-> {}]
    /\ reply = NoReply

\* no credential bundle is being prepared
NoCredentials == [raw |-> [type |-> "none"], pw_cookies |-> <<>>,
                  step |-> "none"]

\* logger.py lines 134-144 __init__: a logger not yet entered
NoScope == [at |-> "outside", how |-> "none", events |-> <<>>,
            propagated |-> FALSE]

\* no dispatch request is being handled
NoDispatch == [reply |-> "none", scheduled |-> 0]

\* lines 84-86 WebSocketManager.__init__: no connection, no broadcast
NoConnections ==
    [active_connections |-> <<>>, broken |-> {}, at |-> "idle",
     copy |-> <<>>, i |-> 1, disconnected |-> <<>>, delivered |-> {}]

InitOrder ==
    /\ kind = "order"
    /\ app = "running"
    /\ store = "up"
    /\ dispatch = NoDispatch
    /\ ws = NoConnections
    /\ scope = NoScope
    /\ cred = NoCredentials
    /\ config \in {c \in OrderConfigs : OrderConfigOk(c)}
    /\ storeSize \in 0..MaxUsers
    /\ stored_points = [a \in Accounts |-> "None"]
    /\ InitRunners

\* The runs in which an UPDATE of the Store may fail are explored for one
\* shape of the order: cash on delivery, no ceiling, a range of one account.
FlakyConfigs ==
    {c \in OrderConfigs :
        /\ OrderConfigOk(c) /\ c.mode = "full_automation"
        /\ c.payment_method = "cash_on_delivery" /\ c.max_cart_value = None
        /\ c.concurrent_browsers = 1
        /\ c.user_range_end = c.user_range_start}

InitOrderFlaky ==
    /\ kind = "order"
    /\ app = "running"
    /\ store = "flaky"
    /\ dispatch = NoDispatch
    /\ ws = NoConnections
    /\ scope = NoScope
    /\ cred = NoCredentials
    /\ config \in FlakyConfigs
    /\ storeSize \in 0..MaxUsers
    /\ stored_points = [a \in Accounts |-> "None"]
    /\ InitRunners

\* CheckpointConfig constrains none of its integers
CheckpointConfigs ==
    [user_range_start : 1..MaxUsers,
     user_range_end : 0..MaxUsers,
     concurrent_browsers : 0..MaxConc]

InitCheckpoint ==
    /\ kind = "checkpoint"
    /\ app = "running"
    /\ store = "up"
    /\ dispatch = NoDispatch
    /\ ws = NoConnections
    /\ scope = NoScope
    /\ cred = NoCredentials
    /\ config \in CheckpointConfigs
    /\ storeSize \in 0..MaxUsers
    /\ stored_points \in [Accounts -> StoredPoints]
    /\ InitRunners

\* the request bodies that differ for execute_order: the payment method
\* and the card reference
DispatchConfigs ==
    {c \in OrderConfigs :
        /\ c.user_range_start = 1 /\ c.user_range_end = 1
        /\ c.concurrent_browsers = 1 /\ c.repetition_count = 1
        /\ c.mode = "full_automation" /\ c.max_cart_value = None}

\* a request arrives at POST /execute; the Store holds or lacks the
\* address, the products and the card it refers to
InitDispatch ==
    /\ kind = "api"
    /\ app = "running"
    /\ store = "up"
    /\ config \in DispatchConfigs
    /\ dispatch \in [address_found : BOOLEAN, products_found : BOOLEAN,
                      card_found : BOOLEAN, reply : {"none"},
                      scheduled : {0}]
    /\ ws = NoConnections
    /\ scope = NoScope
    /\ cred = NoCredentials
    /\ storeSize \in 0..MaxUsers
    /\ stored_points = [a \in Accounts |-> "None"]
    /\ InitRunners

\* the Broadcaster alone: clients connect, break and are sent messages
InitBroadcaster ==
    /\ kind = "broadcaster"
    /\ app = "running"
    /\ store = "up"
    /\ config \in {c \in DispatchConfigs :
                      c.payment_method = "cash_on_delivery"}
    /\ dispatch = NoDispatch
    /\ ws = NoConnections
    /\ scope = NoScope
    /\ cred = NoCredentials
    /\ storeSize = 0
    /\ stored_points = [a \in Accounts |-> "None"]
    /\ InitRunners

\* one stored cookie: a mapping that may lack its name or its value and
\* may carry attribute fields
CookieEntries ==
    [name : {"f.session", "absent"}, value : {"v", "absent"},
     sameSite : {"absent", "no_restriction"}]

MaxCookies == 2

CookieLists ==
    {<<>>} \cup UNION {[1..n -> CookieEntries] : n \in 1..MaxCookies}

\* the encodings of a stored bundle: None, a list, a mapping, and a string
\* holding the JSON of a list, the JSON of a mapping, or `name=value`
\* pairs separated by semicolons
RawCookies ==
    {[type |-> "none"]}
    \cup {[type |-> "list", items |-> l] : l \in CookieLists}
    \cup {[type |-> "dict", items |-> <<c>>] : c \in CookieEntries}
    \cup {[type |-> "str", text |-> t, items |-> l] :
             t \in {"json_list", "semicolon"},
             l \in CookieLists \ {<<>>}}
    \cup {[type |-> "str", text |-> "json_dict", items |-> <<c>>] :
             c \in CookieEntries}

\* _make_request of one account whose stored bundle has some encoding
InitCredentials ==
    /\ kind = "credentials"
    /\ app = "running"
    /\ store = "up"
    /\ config \in {c \in DispatchConfigs :
                      c.payment_method = "cash_on_delivery"}
    /\ dispatch = NoDispatch
    /\ ws = NoConnections
    /\ scope = NoScope
    /\ cred \in {[raw |-> r, pw_cookies |-> <<>>, step |-> "prepare"] :
                    r \in RawCookies}
    /\ storeSize = 0
    /\ stored_points = [a \in Accounts |-> "None"]
    /\ InitRunners

\* an AutomationLogger alone, used around a `with` block
InitLogger ==
    /\ kind = "logger"
    /\ app = "running"
    /\ store = "up"
    /\ config \in {c \in DispatchConfigs :
                      c.payment_method = "cash_on_delivery"}
    /\ dispatch = NoDispatch
    /\ ws = NoConnections
    /\ scope = NoScope
    /\ cred = NoCredentials
    /\ storeSize = 0
    /\ stored_points = [a \in Accounts |-> "None"]
    /\ InitRunners

Init ==
    \/ InitOrder \/ InitOrderFlaky \/ InitCheckpoint \/ InitDispatch
    \/ InitBroadcaster \/ InitLogger \/ InitCredentials

\* ------------------------------------------------- execute_bulk_order
cfgVars == <<kind, app, store, dispatch, ws, scope, cred, config, storeSize>>
bulkVars == <<users, bpc, bulk_results, stats, error_msg>>
localVars == <<rep, results, cart_total, error, calls>>
browserVars == <<context, page, active_browsers, open_browsers>>
orderVars == <<orders, active_orders>>
ckVars == <<task, ck_results, response, result, stored_points,
           updated_fields, reply>>
orderRunVars == <<localVars, ret, browserVars, orderVars, bulk_results, stats>>

\* a dispatch that goes on with an empty list of users
NoUsersIgnored(us) == FALSE

\* order_executor.py:128 and checkpoint_executor.py:60: `if not users`
NoUsers(us) == us = <<>>

\* lines 124-151: resolve the range; no users: the error is logged and
\* broadcast and [] is returned; else one gated task per user, all started
\* by gather.
ExecuteBulkOrder ==
    /\ kind = "order" /\ bpc = "init" /\ app = "running"
    /\ LET us == get_users_by_range(config.user_range_start,
                                    config.user_range_end, storeSize)
       IN  /\ users' = us
           /\ IF NoUsers(us)
              THEN /\ bpc' = "done"
                   /\ error_msg' = "No active users found in range"
                   /\ UNCHANGED <<semaphore, pc>>
              ELSE /\ bpc' = "gather"
                   /\ UNCHANGED error_msg
                   /\ semaphore' = config.concurrent_browsers
                   /\ pc' = [a \in Accounts |->
                                IF a \in Range(us) THEN "waiting" ELSE pc[a]]
    /\ UNCHANGED <<ckVars, cfgVars, localVars, ret, browserVars, orderVars,
                   bulk_results, stats>>

\* a gate that admits every caller
CanAcquireUnbounded == TRUE

\* asyncio.Semaphore.acquire returns at once only while the value is > 0
CanAcquire == semaphore > 0

\* an exit that keeps the slot
NotReleased(sem) == sem

\* the exit of `async with semaphore` (order_executor.py:208,
\* checkpoint_executor.py:103): release() on every way out
Released(sem) == sem + 1

\* line 208: async with semaphore (entry)
Acquire(a) ==
    /\ kind = "order" /\ pc[a] = "waiting"
    /\ CanAcquire
    /\ semaphore' = semaphore - 1
    /\ pc' = [pc EXCEPT ![a] = "launch"]
    /\ UNCHANGED <<ckVars, cfgVars, bulkVars, localVars, ret, browserVars, orderVars>>

\* ------------------------------------------------ execute_single_order
\* an outer except that returns the (empty) result list instead
RaiseOuterEmpty(a, err) ==
    /\ error' = [error EXCEPT ![a] = err]
    /\ ret' = [ret EXCEPT ![a] = ListReturn(results[a])]
    /\ pc' = [pc EXCEPT ![a] = "finally"]

\* lines 548-559: the outer except turns any exception of the setup or of
\* the loop body outside the inner try into one failed dict; finally follows.
RaiseOuter(a, err) ==
    /\ error' = [error EXCEPT ![a] = err]
    /\ ret' = [ret EXCEPT ![a] = DictReturn(err)]
    /\ pc' = [pc EXCEPT ![a] = "finally"]

\* lines 240-245 with BrowserManager.launch_browser (50-140): chromium.launch
\* may raise before the browser is stored; new_context / add_init_script may
\* raise after it is stored, and then the caller's `context` stays None.
LaunchBrowser(a) ==
    /\ pc[a] = "launch"
    /\ \E out \in {"launch_raises", "context_raises", "ok"} :
         /\ active_browsers' =
              IF out = "launch_raises" THEN active_browsers
              ELSE active_browsers \cup {a}
         /\ open_browsers' =
              IF out = "launch_raises" THEN open_browsers
              ELSE open_browsers \cup {a}
         /\ context' = [context EXCEPT ![a] = (out = "ok")]
         /\ IF out = "ok"
            THEN pc' = [pc EXCEPT ![a] = "auth"] /\ UNCHANGED <<ret, error>>
            ELSE RaiseOuter(a, "browser launch failed")
    /\ UNCHANGED <<ckVars, cfgVars, bulkVars, semaphore, rep, results,
                   cart_total, calls, page, orderVars>>

\* a runner that never takes the test-login exit
IsTestLoginNever(c) == FALSE

\* line 288: config.mode == ExecutionMode.TEST_LOGIN
IsTestLogin(c) == c.mode = "test_login"

\* lines 246-291: new_page, cookies, navigation (its failure is swallowed),
\* login check (never fatal), and the test-login exit.
Auth(a) ==
    /\ pc[a] = "auth"
    /\ \E out \in {"page_raises", "cookies_raise", "ok"} :
         /\ page' = [page EXCEPT ![a] =
                        IF out = "page_raises" THEN "none" ELSE "open"]
         /\ IF out # "ok"
            THEN RaiseOuter(a, "authentication failed")
            ELSE IF IsTestLogin(config)
            THEN /\ ret' = [ret EXCEPT ![a] = ListReturn(
                        <<[order_id |-> 0, status |-> "completed"]>>)]
                 /\ pc' = [pc EXCEPT ![a] = "finally"]
                 /\ UNCHANGED error
            ELSE /\ pc' = [pc EXCEPT ![a] = "loop"]
                 /\ UNCHANGED <<ret, error>>
    /\ UNCHANGED <<ckVars, cfgVars, bulkVars, semaphore, rep, results,
                   cart_total, calls, context, active_browsers, open_browsers,
                   orderVars>>

\* lines 306-341: which exception, if any, the resolution of the address
\* and of the card raises
ResolveError(address_found, card_found) ==
    IF ~address_found THEN "Address not found"
    ELSE IF config.payment_method = "card"
    THEN IF config.card_ref = "card_id"
         THEN IF ~card_found THEN "Card not found" ELSE "none"
         ELSE IF config.card_ref = "card_details" THEN "none"
         ELSE "no card_id or card_details"
    ELSE "none"

\* lines 295-341 and 582: the loop head; an exhausted loop falls through to
\* `return results`, else the iteration resolves the address and the card.
LoopNext(a) ==
    /\ pc[a] = "loop"
    /\ IF rep[a] >= config.repetition_count
       THEN /\ ret' = [ret EXCEPT ![a] = ListReturn(results[a])]
            /\ pc' = [pc EXCEPT ![a] = "finally"]
            /\ UNCHANGED <<rep, cart_total, error, calls>>
       ELSE /\ rep' = [rep EXCEPT ![a] = @ + 1]
            /\ UNCHANGED <<cart_total, calls>>
            /\ \E address_found \in BOOLEAN, card_found \in BOOLEAN :
                 LET e == ResolveError(address_found, card_found)
                 IN  IF e # "none"
                     THEN RaiseOuter(a, e)
                     ELSE /\ pc' = [pc EXCEPT ![a] = "create"]
                          /\ UNCHANGED <<ret, error>>
    /\ UNCHANGED <<ckVars, cfgVars, bulkVars, semaphore, results, browserVars,
                   orderVars>>

\* the id of the Order of account a's current repetition
CurrentOrder(a) == <<a, Len(orders[a])>>

NewOrder == [status |-> "pending", total |-> 0,
             tira_order_number |-> "None", error_message |-> "None"]

\* data_service.py lines 413-421: whether the UPDATE of update_order goes
\* through; it may fail at each call when the database is flaky
UpdateAnswers == IF store = "up" THEN {TRUE} ELSE BOOLEAN

\* lines 373-403: create_order (re-raises a Store error) and the cache entry
CreateOrder(a) ==
    /\ pc[a] = "create"
    /\ \E store_ok \in BOOLEAN :
         IF store_ok
         THEN /\ orders' = [orders EXCEPT ![a] = Append(@, NewOrder)]
              /\ active_orders' = active_orders @@
                    (<<a, Len(orders[a]) + 1>> :> "pending")
              /\ pc' = [pc EXCEPT ![a] = "processing"]
              /\ UNCHANGED <<ret, error>>
         ELSE /\ RaiseOuter(a, "create_order failed")
              /\ UNCHANGED orderVars
    /\ UNCHANGED <<ckVars, cfgVars, bulkVars, semaphore, rep, results,
                   cart_total, calls, browserVars>>

\* lines 627-642 _update_order_status: the Store row and, when present, the
\* in-memory cache entry
UpdatedOrders(a, status, fields) ==
    [orders EXCEPT ![a][Len(orders[a])] =
        [f \in DOMAIN @ |-> IF f = "status" THEN status
                            ELSE IF f \in DOMAIN fields THEN fields[f]
                            ELSE @[f]]]

\* data_service.py lines 402-421 update_order: an UPDATE that fails is
\* rolled back and None is returned, which _update_order_status (636)
\* does not look at: the row stays as it was
update_order(a, status, fields, store_ok) ==
    IF store_ok THEN UpdatedOrders(a, status, fields) ELSE orders

UpdatedCache(a, status) ==
    IF CurrentOrder(a) \in DOMAIN active_orders
    THEN [active_orders EXCEPT ![CurrentOrder(a)] = status]
    ELSE active_orders

\* a helper that lets the exception of a failed send through
BroadcastPropagates(send_ok) == ~send_ok

\* lines 73-87 _broadcast_log / _broadcast_order_update: the send is
\* wrapped in try/except, a failure is logged at debug level; whether the
\* call raises into the runner
BroadcastRaises(send_ok) == FALSE

\* lines 405-416: the Order is marked processing and the update is
\* broadcast; store_ok is whether the Store's UPDATE succeeds, send_ok
\* whether the Broadcaster's send does
MarkProcessingSend(a, store_ok, send_ok) ==
    /\ pc[a] = "processing"
    /\ orders' = update_order(a, "processing", <<>>, store_ok)
    /\ active_orders' = UpdatedCache(a, "processing")
    /\ IF BroadcastRaises(send_ok)
       THEN /\ error' = [error EXCEPT ![a] = "send failed"]
            /\ pc' = [pc EXCEPT ![a] = "rep_except"]
            /\ UNCHANGED <<rep, results, cart_total, calls>>
       ELSE /\ pc' = [pc EXCEPT ![a] = "cart"]
            /\ UNCHANGED localVars
    /\ UNCHANGED <<ckVars, cfgVars, bulkVars, semaphore, ret, browserVars>>

MarkProcessing(a) ==
    \E store_ok \in UpdateAnswers, send_ok \in BOOLEAN :
        MarkProcessingSend(a, store_ok, send_ok)

\* lines 463-466: the total check
TotalCheckError(max_cart_value, total) ==
    IF Truthy(max_cart_value) /\ total > TheValue(max_cart_value)
    THEN "exceeds limit"
    ELSE IF total <= 0 THEN "Cart total is invalid or zero"
    ELSE "none"

\* lines 427-466: address cleanup, cart cleanup, products, cart page, coupon,
\* total and the total check. A step that fails may leave the page closed.
CartSteps(a) ==
    /\ pc[a] = "cart"
    /\ \/ /\ \E pg \in {"open", "closed"} : page' = [page EXCEPT ![a] = pg]
          /\ error' = [error EXCEPT ![a] = "cart step failed"]
          /\ pc' = [pc EXCEPT ![a] = "rep_except"]
          /\ UNCHANGED cart_total
       \/ /\ \E t \in CartTotals :
               LET e == TotalCheckError(config.max_cart_value, t)
               IN  /\ cart_total' = [cart_total EXCEPT ![a] = t]
                   /\ error' = [error EXCEPT ![a] = e]
                   /\ pc' = [pc EXCEPT ![a] =
                                IF e = "none" THEN "address" ELSE "rep_except"]
          /\ UNCHANGED page
    /\ UNCHANGED <<ckVars, cfgVars, bulkVars, semaphore, rep, results, calls, ret,
                   context, active_browsers, open_browsers, orderVars>>

\* lines 468-472: add_address returns False on failure
AddAddress(a) ==
    /\ pc[a] = "address"
    /\ calls' = [calls EXCEPT ![a] = @ \cup {"add_address"}]
    /\ \/ /\ \E pg \in {"open", "closed"} : page' = [page EXCEPT ![a] = pg]
          /\ error' = [error EXCEPT ![a] = "Failed to add delivery address"]
          /\ pc' = [pc EXCEPT ![a] = "rep_except"]
       \/ /\ pc' = [pc EXCEPT ![a] = "place"]
          /\ UNCHANGED <<page, error>>
    /\ UNCHANGED <<ckVars, cfgVars, bulkVars, semaphore, rep, results, cart_total, ret,
                   context, active_browsers, open_browsers, orderVars>>

\* The locals of a repetition are dead once its outcome is appended; they
\* are put back to their initial values there.
EndRepetition(a) ==
    /\ cart_total' = [cart_total EXCEPT ![a] = 0]
    /\ error' = [error EXCEPT ![a] = "none"]
    /\ calls' = [calls EXCEPT ![a] = {}]

\* an update to completed that leaves out the total
CompletedFieldsNoTotal(a) == [tira_order_number |-> "ORDER_PLACED"]

\* lines 487-492: the fields saved with the completed status: the
\* confirmation returned by place_order and the observed cart total
CompletedFields(a) ==
    [tira_order_number |-> "ORDER_PLACED", total |-> cart_total[a]]

\* lines 474-513: place_order; None is a failure; a confirmation completes
\* the Order and appends the completed outcome.
PlaceOrderSend(a, store_ok, send_ok) ==
    /\ pc[a] = "place"
    /\ \/ /\ \E pg \in {"open", "closed"} : page' = [page EXCEPT ![a] = pg]
          /\ calls' = [calls EXCEPT ![a] = @ \cup {"place_order"}]
          /\ error' = [error EXCEPT ![a] = "Failed to place order"]
          /\ pc' = [pc EXCEPT ![a] = "rep_except"]
          /\ UNCHANGED <<results, cart_total, orderVars>>
       \/ /\ orders' = update_order(a, "completed", CompletedFields(a),
                                    store_ok)
          /\ active_orders' = UpdatedCache(a, "completed")
          /\ IF BroadcastRaises(send_ok)
             THEN /\ calls' = [calls EXCEPT ![a] = @ \cup {"place_order"}]
                  /\ error' = [error EXCEPT ![a] = "send failed"]
                  /\ pc' = [pc EXCEPT ![a] = "rep_except"]
                  /\ UNCHANGED <<results, cart_total>>
             ELSE /\ results' = [results EXCEPT ![a] = Append(@,
                        [order_id |-> Len(orders[a]), status |-> "completed",
                         tira_order_number |-> "ORDER_PLACED",
                         total |-> cart_total[a]])]
                  /\ EndRepetition(a)
                  /\ pc' = [pc EXCEPT ![a] = "loop"]
          /\ UNCHANGED page
    /\ UNCHANGED <<ckVars, cfgVars, bulkVars, semaphore, rep, ret, context,
                   active_browsers, open_browsers>>

PlaceOrder(a) ==
    \E store_ok \in UpdateAnswers, send_ok \in BOOLEAN :
        PlaceOrderSend(a, store_ok, send_ok)

\* a loop that stops at the first failed repetition
AbortOnAnyFailure(a) == TRUE

\* line 544: the repetitions are aborted when the page says it is closed
AbortRepetitions(a) == page[a] = "closed"

\* lines 515-546: the inner except: the Order is marked failed, the failed
\* outcome is appended, and the loop goes on unless the page is closed.
RepExceptSend(a, store_ok, send_ok) ==
    /\ pc[a] = "rep_except"
    /\ orders' = update_order(a, "failed", [error_message |-> error[a]],
                              store_ok)
    /\ active_orders' = UpdatedCache(a, "failed")
    /\ IF BroadcastRaises(send_ok)
       THEN /\ RaiseOuter(a, "send failed")
            /\ UNCHANGED <<results, cart_total, calls>>
       ELSE /\ results' = [results EXCEPT ![a] = Append(@,
                  [order_id |-> Len(orders[a]), status |-> "failed",
                   error |-> error[a]])]
            /\ IF AbortRepetitions(a)
               THEN /\ ret' = [ret EXCEPT ![a] = ListReturn(results'[a])]
                    /\ pc' = [pc EXCEPT ![a] = "finally"]
               ELSE /\ pc' = [pc EXCEPT ![a] = "loop"]
                    /\ UNCHANGED ret
            /\ EndRepetition(a)
    /\ UNCHANGED <<ckVars, cfgVars, bulkVars, semaphore, rep, browserVars>>

RepExcept(a) ==
    \E store_ok \in UpdateAnswers, send_ok \in BOOLEAN :
        RepExceptSend(a, store_ok, send_ok)

\* lines 561-567 with BrowserManager.close_browser (160-168): the browser is
\* closed only when `context` is set; a close that raises keeps the entry.
ClosedBrowsers(a, browsers, close_ok) ==
    IF context[a] /\ a \in browsers /\ close_ok
    THEN browsers \ {a}
    ELSE browsers

\* a return that leaves the cache as it is
CleanedOrdersKept(a) == active_orders

\* lines 569-572: the outcomes' Orders leave the cache
CleanedOrders(a) ==
    LET gone == {<<a, results[a][k].order_id>> : k \in 1..Len(results[a])}
        keep == DOMAIN active_orders \ gone
    IN  [id \in keep |-> active_orders[id]]

\* lines 561-582 and the exit of `async with semaphore` (line 208)
Finally(a) ==
    /\ pc[a] = "finally"
    /\ \E close_ok \in BOOLEAN :
         /\ active_browsers' = ClosedBrowsers(a, active_browsers, close_ok)
         /\ open_browsers' = ClosedBrowsers(a, open_browsers, close_ok)
    /\ active_orders' = CleanedOrders(a)
    /\ semaphore' = Released(semaphore)
    /\ pc' = [pc EXCEPT ![a] = "done"]
    /\ UNCHANGED <<ckVars, cfgVars, bulkVars, localVars, ret, context, page, orders>>

\* lines 644-646 get_active_orders: the cached Orders (their ids)
get_active_orders == DOMAIN active_orders

\* ------------------------------------- execute_bulk_order, after gather
\* a gather that returns at the first task that ends in a failure
GatherFirstFailure ==
    \/ \A a \in Range(users) : pc[a] = "done"
    \/ \E a \in Range(users) : pc[a] = "done" /\ ret[a].type = "dict"

\* a gather that returns as soon as one task has finished
GatherReturnsEarly == \E a \in Range(users) : pc[a] = "done"

\* line 151: gather(..., return_exceptions=True) returns when every task
\* has finished
GatherReady == \A a \in Range(users) : pc[a] = "done"

\* lines 158-173: a dict counts as successful or failed by its status,
\* anything else (an exception, a list) as an error
Tally(rs) ==
    LET idx == 1..Len(rs)
        dicts == {i \in idx : rs[i].type = "dict"}
    IN  [successful |-> Cardinality({i \in dicts : rs[i].status = "completed"}),
         failed |-> Cardinality({i \in dicts : rs[i].status # "completed"}),
         errors |-> Cardinality(idx \ dicts),
         total |-> Len(rs)]

\* lines 151-196
BulkComplete ==
    /\ kind = "order" /\ bpc = "gather"
    /\ GatherReady
    /\ bulk_results' = [i \in 1..Len(users) |-> ret[users[i]]]
    /\ stats' = Tally(bulk_results')
    /\ bpc' = "done"
    /\ UNCHANGED <<ckVars, cfgVars, users, semaphore, pc, localVars, ret, browserVars,
                   orderVars, error_msg>>

\* ------------------------------------------------ api/automation.py
\* a handler that does not look the products up
RejectionSkippingProducts(c, req) ==
    IF ~req.address_found THEN "404 Address not found"
    ELSE IF c.payment_method = "card" /\ c.card_ref = "card_id"
    THEN IF ~req.card_found THEN "404 Credit card not found" ELSE "none"
    ELSE IF c.payment_method = "card" /\ c.card_ref # "card_details"
    THEN "400 Card details or card_id must be provided"
    ELSE "none"

\* lines 30-65 execute_order: the HTTPException raised, if any
Rejection(c, req) ==
    IF ~req.address_found THEN "404 Address not found"
    ELSE IF ~req.products_found THEN "404 Product not found"
    ELSE IF c.payment_method = "card" /\ c.card_ref = "card_id"
    THEN IF ~req.card_found THEN "404 Credit card not found" ELSE "none"
    ELSE IF c.payment_method = "card" /\ c.card_ref # "card_details"
    THEN "400 Card details or card_id must be provided"
    ELSE "none"

\* lines 19-83 execute_order: validation, then one background task and the
\* reply with status processing
ExecuteOrder ==
    /\ kind = "api" /\ dispatch.reply = "none"
    /\ LET why == Rejection(config, dispatch)
       IN  dispatch' =
             IF why # "none"
             THEN [dispatch EXCEPT !.reply = why]
             ELSE [dispatch EXCEPT !.reply = "processing",
                                   !.scheduled = @ + 1]
    /\ UNCHANGED <<kind, app, store, ws, scope, cred, config, storeSize, users, bpc,
                   semaphore, pc, orderRunVars, error_msg, ckVars>>

\* ------------------------------------------------------------ main.py
\* lines 42-56 lifespan, the part after yield: the shutdown logs one line
\* and ends; OrderExecutor.cleanup (837-839) and BrowserManager.stop
\* (34-48) are not called from it nor from anywhere else.  The server runs
\* this part once no request, background task included, is under way.
Shutdown ==
    /\ kind = "order" /\ app = "running"
    /\ bpc \in {"init", "done"}
    /\ app' = "stopped"
    /\ UNCHANGED <<kind, store, dispatch, ws, scope, cred, config, storeSize, users,
                   bpc, semaphore, pc, orderRunVars, error_msg, ckVars>>

\* ------------------------------- CheckpointExecutor, PREPARE_CREDENTIALS
\* json.loads of a stored string: the value, or the JSONDecodeError that a
\* text of `name=value; name=value` raises
json_loads(raw) ==
    IF raw.text = "json_list" THEN [type |-> "list", items |-> raw.items]
    ELSE IF raw.text = "json_dict" THEN [type |-> "dict", items |-> raw.items]
    ELSE [type |-> "JSONDecodeError"]

\* lines 138-139: `if not raw_cookies`
Falsy(raw) ==
    \/ raw.type = "none"
    \/ raw.type = "list" /\ raw.items = <<>>

\* lines 144-158: the list of mappings read from the stored value
CookieList(raw) ==
    IF raw.type = "str"
    THEN LET parsed == json_loads(raw)
         IN  IF parsed.type \in {"list", "dict"} THEN parsed.items ELSE <<>>
    ELSE raw.items

\* lines 169-170: entries without a name or a value are skipped
Usable(c) == c.name # "absent" /\ c.value # "absent"

\* lines 172-190: the cookie handed to the browser
PwCookie(c) ==
    [name |-> c.name, value |-> c.value,
     domain |-> ".www.tirabeauty.com", path |-> "/",
     sameSite |-> IF c.sameSite = "no_restriction" THEN "None" ELSE "Lax"]

\* lines 131-195 _prepare_playwright_cookies
prepare_playwright_cookies(raw) ==
    IF Falsy(raw) THEN <<>>
    ELSE LET kept == SelectSeq(CookieList(raw), Usable)
         IN  [i \in 1..Len(kept) |-> PwCookie(kept[i])]

\* lines 210-224 _make_request: the cookies are prepared; without any the
\* outcome is failed with "No cookies found", else the request is made
PrepareCredentials ==
    /\ kind = "credentials" /\ cred.step = "prepare"
    /\ LET pw == prepare_playwright_cookies(cred.raw)
       IN  cred' = [cred EXCEPT
                      !.pw_cookies = pw,
                      !.step = IF pw = <<>> THEN "No cookies found"
                               ELSE "request"]
    /\ UNCHANGED <<kind, app, store, dispatch, ws, scope, config, storeSize,
                   users, bpc, semaphore, pc, orderRunVars, error_msg,
                   ckVars>>

\* ---------------------------------------------------- utils/logger.py
scopeRest == <<kind, app, store, dispatch, ws, cred, config, storeSize, users,
               bpc, semaphore, pc, orderRunVars, error_msg, ckVars>>

\* the steps logged inside one scope
MaxSteps == 2

\* the step names the runner logs (order_executor.py 241-289, 418-509)
StepNames == {"INIT", "AUTH", "WAIT"}

\* lines 166-182 __enter__: the START event
Enter ==
    /\ kind = "logger" /\ scope.at = "outside"
    /\ scope' = [scope EXCEPT !.at = "inside", !.events = <<"START">>]
    /\ UNCHANGED scopeRest

\* lines 205-217 log_step: an event named after the step
LogStep(step) ==
    /\ kind = "logger" /\ scope.at = "inside"
    /\ Len(scope.events) <= MaxSteps
    /\ scope' = [scope EXCEPT !.events = Append(@, step)]
    /\ UNCHANGED scopeRest

\* an exit that reports every end as a success
ClosingEventComplete(raised) == "COMPLETE"

\* lines 187-194 __exit__: COMPLETE when exc_type is None, else ERROR
ClosingEvent(raised) == IF raised THEN "ERROR" ELSE "COMPLETE"

\* line 203 __exit__ returns False: the exception goes on to the caller
Suppressed(raised) == FALSE

\* lines 184-203 __exit__, called when the block ends normally, by a
\* return inside it, or by an exception
Exit(how) ==
    /\ kind = "logger" /\ scope.at = "inside"
    /\ LET raised == how = "raise"
       IN  scope' = [scope EXCEPT
                       !.at = "closed", !.how = how,
                       !.events = Append(@, ClosingEvent(raised)),
                       !.propagated = raised /\ ~Suppressed(raised)]
    /\ UNCHANGED scopeRest

\* ---------------------------------------- utils/websocket_manager.py
Clients == {"c1", "c2", "c3"}

\* list.remove of the first occurrence
Without(s, c) == SelectSeq(s, LAMBDA x : x # c)

wsRest == <<kind, app, store, dispatch, scope, cred, config, storeSize, users, bpc, semaphore, pc,
            orderRunVars, error_msg, ckVars>>

\* lines 88-93 connect: the accepted socket is appended
Connect(c) ==
    /\ kind = "broadcaster"
    /\ c \notin Range(ws.active_connections)
    /\ c \notin ws.broken /\ c \notin Range(ws.copy)
    /\ ws' = [ws EXCEPT !.active_connections = Append(@, c)]
    /\ UNCHANGED wsRest

\* lines 95-100 disconnect: the socket is removed when it is listed
Disconnect(c) ==
    /\ kind = "broadcaster"
    /\ c \in Range(ws.active_connections)
    /\ ws' = [ws EXCEPT !.active_connections = Without(@, c)]
    /\ UNCHANGED wsRest

\* the peer goes away: send_text on this socket raises from now on
ConnectionBreaks(c) ==
    /\ kind = "broadcaster"
    /\ c \in Range(ws.active_connections) /\ c \notin ws.broken
    /\ ws' = [ws EXCEPT !.broken = @ \cup {c}]
    /\ UNCHANGED wsRest

\* lines 104-108 broadcast: nothing to do without connections; else the
\* loop runs over a copy of the list
BroadcastStart ==
    /\ kind = "broadcaster" /\ ws.at = "idle"
    /\ ws.active_connections # <<>>
    /\ ws' = [ws EXCEPT !.at = "sending", !.copy = ws.active_connections,
                        !.i = 1, !.disconnected = <<>>, !.delivered = {}]
    /\ UNCHANGED wsRest

\* a loop that ends at the first send that raises
LoopEndsAtFailure(i, n, failed) == IF failed THEN n + 1 ELSE i + 1

\* lines 108-113: the except clause is inside the loop body, so the loop
\* goes on with the next connection after a failed send
LoopGoesOn(i, n, failed) == i + 1

\* lines 108-113 broadcast: one send_text; a send that raises puts the
\* connection on the disconnected list
BroadcastSend ==
    /\ kind = "broadcaster" /\ ws.at = "sending"
    /\ ws.i <= Len(ws.copy)
    /\ LET c == ws.copy[ws.i]
           failed == c \in ws.broken
       IN  ws' = [ws EXCEPT
                    !.i = LoopGoesOn(ws.i, Len(ws.copy), failed),
                    !.delivered = IF failed THEN @ ELSE @ \cup {c},
                    !.disconnected = IF failed THEN Append(@, c) ELSE @]
    /\ UNCHANGED wsRest

\* lines 115-121 broadcast: the connections whose send raised are removed
BroadcastEnd ==
    /\ kind = "broadcaster" /\ ws.at = "sending"
    /\ ws.i > Len(ws.copy)
    /\ ws' = [ws EXCEPT
                 !.at = "idle",
                 !.active_connections =
                     SelectSeq(@, LAMBDA x : x \notin Range(ws.disconnected)),
                 !.broken = @ \ Range(ws.disconnected)]
    /\ UNCHANGED wsRest

\* ------------------------------------------------ CheckpointExecutor
\* lines 36-53 execute_bulk_check: the task is registered as processing
\* with total = end - start + 1 and the background task is created
ExecuteBulkCheck ==
    /\ kind = "checkpoint" /\ bpc = "init"
    /\ task' = [status |-> "processing",
                total |-> config.user_range_end - config.user_range_start + 1,
                total_points |-> 0,
                error |-> "None"]
    /\ ck_results' = <<>>
    /\ bpc' = "created"
    /\ reply' = NoReply
    /\ UNCHANGED <<cfgVars, users, semaphore, pc, orderRunVars, error_msg,
                   response, result, stored_points, updated_fields>>

\* line 69
Concurrency(c) ==
    IF c.concurrent_browsers > 0 THEN c.concurrent_browsers
    ELSE DefaultConcurrency

\* a run that keeps the total computed from the requested range
RequestedTotal(us) == config.user_range_end - config.user_range_start + 1

\* line 66: the total becomes the number of users found
FoundTotal(us) == Len(us)

\* lines 55-74 and 91-94 _run_bulk_check up to gather: a Store error or an
\* empty range fails the task; else total becomes the number of users found.
RunBulkCheck ==
    /\ kind = "checkpoint" /\ bpc = "created"
    /\ \E store_ok \in BOOLEAN :
         LET us == get_users_by_range(config.user_range_start,
                                      config.user_range_end, storeSize)
         IN  IF ~store_ok
             THEN /\ task' = [task EXCEPT !.status = "failed",
                                          !.error = "store error"]
                  /\ bpc' = "done"
                  /\ UNCHANGED <<users, semaphore, pc>>
             ELSE IF NoUsers(us)
             THEN /\ task' = [task EXCEPT !.status = "failed",
                                          !.error = "No users found in range"]
                  /\ users' = us
                  /\ bpc' = "done"
                  /\ UNCHANGED <<semaphore, pc>>
             ELSE /\ task' = [task EXCEPT !.total = FoundTotal(us)]
                  /\ users' = us
                  /\ semaphore' = Concurrency(config)
                  /\ pc' = [a \in Accounts |->
                               IF a \in Range(us) THEN "waiting" ELSE pc[a]]
                  /\ bpc' = "gather"
    /\ reply' = NoReply
    /\ UNCHANGED <<cfgVars, orderRunVars, error_msg, ck_results, response,
                   result, stored_points, updated_fields>>

\* line 103: async with semaphore (entry)
CheckAcquire(a) ==
    /\ kind = "checkpoint" /\ pc[a] = "waiting"
    /\ CanAcquire
    /\ semaphore' = semaphore - 1
    /\ pc' = [pc EXCEPT ![a] = "request"]
    /\ reply' = NoReply
    /\ UNCHANGED <<cfgVars, bulkVars, orderRunVars, task, ck_results, response,
                   result, stored_points, updated_fields>>

\* what the account-status fetch can meet: no usable cookie; HTTP 200 with
\* success true and both pointSummary.available and userTier.name, with
\* neither, or with the points and a userTier that is not an object (the
\* read of its name raises); 200 with success false; 200 with a body that
\* is not JSON; 401, 403, 302, another status; no response object.
Responses == {"no_cookies", "200_points", "200_no_points", "200_tier_raises",
              "200_success_false", "200_bad_json", "401", "403", "302", "500",
              "no_response"}

\* a classification without the branch for a redirect
StatusOfNoRedirect(resp) ==
    IF resp \in {"200_points", "200_no_points"} THEN "success"
    ELSE IF resp \in {"401", "403"} THEN "logged_out"
    ELSE "failed"

\* lines 205, 216-224, 271-324 and 334-335: the status of the outcome
StatusOf(resp) ==
    IF resp \in {"200_points", "200_no_points"} THEN "success"
    ELSE IF resp \in {"401", "403", "302"} THEN "logged_out"
    ELSE "failed"

\* lines 203 and 284-285: `points` is "N/A" until pointSummary.available is
\* read, and nothing resets it; the early return for missing cookies
\* leaves the field's default None.
PointsOf(resp) ==
    IF resp = "no_cookies" THEN "None"
    ELSE IF resp \in {"200_points", "200_tier_raises"} THEN "3"
    ELSE "N/A"

\* lines 204, 291-294 and 344: the tier name, else the user's name
AccountNameOf(resp) ==
    IF resp = "no_cookies" THEN "None"
    ELSE IF resp = "200_points" THEN "tier"
    ELSE "name"

\* lines 206, 223, 300, 306, 312, 317, 323 and 336: the error message
ErrorOf(resp) ==
    IF resp = "no_cookies" THEN "No cookies found"
    ELSE IF resp \in {"200_points", "200_no_points"} THEN "None"
    ELSE IF resp = "200_tier_raises" THEN "Unexpected error"
    ELSE IF resp = "200_success_false" THEN "API returned success=False"
    ELSE IF resp = "200_bad_json" THEN "Invalid JSON response"
    ELSE IF resp \in {"401", "403"} THEN "Authentication failed"
    ELSE IF resp = "302" THEN "Redirect detected"
    ELSE "API Error HTTP"

\* lines 197-347 _make_request: the CheckpointResult for each response
MakeRequest(resp) ==
    [status |-> StatusOf(resp), points |-> PointsOf(resp),
     account_name |-> AccountNameOf(resp), error |-> ErrorOf(resp)]

\* a test that leaves out the "N/A" placeholder
HasPointsNotNone(r) == r.points # "None"

\* line 112: `result.points and result.points != "N/A"`
HasPoints(r) == r.points # "None" /\ r.points # "N/A"

\* a write that replaces the list read before the request
AppendResultOverwrite(rs, r) == <<r>>

\* line 109: self.results[task_id].append(result), in the event loop
AppendResult(rs, r) == Append(rs, r)

\* lines 104-116: the request runs in a worker thread; on its return the
\* result is appended, and points that were found are then saved.
CheckRequest(a) ==
    /\ pc[a] = "request"
    /\ \E resp \in Responses :
         LET r == MakeRequest(resp)
         IN  /\ response' = [response EXCEPT ![a] = resp]
             /\ result' = [result EXCEPT ![a] = r]
             /\ ck_results' = AppendResult(ck_results, [user_id |-> a,
                                  status |-> r.status, points |-> r.points])
             /\ IF HasPoints(r)
                THEN /\ pc' = [pc EXCEPT ![a] = "persist"]
                     /\ UNCHANGED semaphore
                ELSE /\ pc' = [pc EXCEPT ![a] = "done"]
                     /\ semaphore' = Released(semaphore)
    /\ reply' = NoReply
    /\ UNCHANGED <<cfgVars, bulkVars, orderRunVars, task, stored_points,
                   updated_fields>>

\* lines 112-116 with update_user_points and update_tira_user
\* (data_service.py:621-643), which rolls back and returns None when the
\* UPDATE fails, and the exit of `async with`
PersistPoints(a) ==
    /\ pc[a] = "persist"
    /\ \E store_ok \in BOOLEAN :
         IF store_ok
         THEN /\ stored_points' =
                    [stored_points EXCEPT ![a] = result[a].points]
              /\ updated_fields' =
                    [updated_fields EXCEPT ![a] = @ \cup {"points"}]
         ELSE UNCHANGED <<stored_points, updated_fields>>
    /\ semaphore' = Released(semaphore)
    /\ pc' = [pc EXCEPT ![a] = "done"]
    /\ reply' = NoReply
    /\ UNCHANGED <<cfgVars, bulkVars, orderRunVars, task, ck_results, response,
                   result>>

\* line 82: r.points.replace('.', '', 1).isdigit(), and float(r.points)
IsNumber(p) == p \in {"0", "3"}
ToNumber(p) == IF p = "3" THEN 3 ELSE 0

RECURSIVE SumPoints(_)
\* lines 78-85
SumPoints(rs) ==
    IF rs = <<>> THEN 0
    ELSE (IF Head(rs).points # "None" /\ IsNumber(Head(rs).points)
          THEN ToNumber(Head(rs).points) ELSE 0) + SumPoints(Tail(rs))

\* lines 76-89: after gather the points are summed and the task completes
CheckComplete ==
    /\ kind = "checkpoint" /\ bpc = "gather"
    /\ GatherReady
    /\ task' = [task EXCEPT !.status = "completed",
                            !.total_points = SumPoints(ck_results)]
    /\ bpc' = "done"
    /\ reply' = NoReply
    /\ UNCHANGED <<cfgVars, users, semaphore, pc, orderRunVars, error_msg,
                   ck_results, response, result, stored_points,
                   updated_fields>>

\* lines 353-366 get_task_status
get_task_status ==
    IF task.status = "not_found" THEN [status |-> "not_found"]
    ELSE [status |-> task.status,
          progress |-> Len(ck_results),
          total |-> task.total,
          total_points |-> task.total_points,
          error |-> task.error]

\* lines 349-351 get_results
get_results == ck_results

\* line 351: self.results.get(task_id, default), where the entry exists
\* from execute_bulk_check on
ResultsGet(default) ==
    IF task.status = "not_found" THEN default ELSE Some(ck_results)

\* api/checkpoints.py lines 45-47: 404 when the status is not_found
get_checkpoint_status ==
    IF get_task_status.status = "not_found" THEN "404 Task not found"
    ELSE "200"

\* api/checkpoints.py lines 53-55: 404 when get_results returned None;
\* get_results (line 351) asks for the default []
get_checkpoint_results ==
    IF ResultsGet(Some(<<>>)) = None THEN "404 Task not found" ELSE "200"

\* active_tasks[task_id] and results[task_id]
Registry == [active_tasks |-> task, results |-> ck_results]

\* a read that hands the results over and empties the list
AfterDrainingRead(reg) == [reg EXCEPT !.results = <<>>]

\* lines 349-366: both reads use dict.get and write nothing
AfterRead(reg) == reg

\* a caller polls the status of the task (api/checkpoints.py:42-48)
GetTaskStatus ==
    /\ kind = "checkpoint"
    /\ reply' = [call |-> "get_task_status", value |-> get_task_status,
                 http |-> get_checkpoint_status]
    /\ task' = AfterRead(Registry).active_tasks
    /\ ck_results' = AfterRead(Registry).results
    /\ UNCHANGED <<cfgVars, bulkVars, semaphore, pc, orderRunVars, response,
                   result, stored_points, updated_fields>>

\* a caller fetches the results of the task (api/checkpoints.py:50-56)
GetResults ==
    /\ kind = "checkpoint"
    /\ reply' = [call |-> "get_results", value |-> get_results,
                 http |-> get_checkpoint_results]
    /\ task' = AfterRead(Registry).active_tasks
    /\ ck_results' = AfterRead(Registry).results
    /\ UNCHANGED <<cfgVars, bulkVars, semaphore, pc, orderRunVars, response,
                   result, stored_points, updated_fields>>

CheckRunner(a) ==
    \/ CheckAcquire(a)
    \/ CheckRequest(a)
    \/ PersistPoints(a)

OrderRunner(a) ==
    \/ Acquire(a)
    \/ LaunchBrowser(a)
    \/ Auth(a)
    \/ LoopNext(a)
    \/ CreateOrder(a)
    \/ MarkProcessing(a)
    \/ CartSteps(a)
    \/ AddAddress(a)
    \/ PlaceOrder(a)
    \/ RepExcept(a)
    \/ Finally(a)

Next ==
    \/ ExecuteBulkOrder
    \/ BulkComplete
    \/ \E a \in Accounts : OrderRunner(a)
    \/ ExecuteBulkCheck
    \/ RunBulkCheck
    \/ CheckComplete
    \/ \E a \in Accounts : CheckRunner(a)
    \/ GetTaskStatus
    \/ GetResults
    \/ ExecuteOrder
    \/ Shutdown
    \/ \E c \in Clients : Connect(c) \/ Disconnect(c) \/ ConnectionBreaks(c)
    \/ BroadcastStart
    \/ BroadcastSend
    \/ BroadcastEnd
    \/ PrepareCredentials
    \/ Enter
    \/ \E step \in StepNames : LogStep(step)
    \/ \E how \in {"normal", "return", "raise"} : Exit(how)

Spec == Init /\ [][Next]_vars

\* The event loop runs every task that is ready: a runner whose next step
\* can be taken takes it, and gather returns once its runners have.  Driver
\* steps terminate.  asyncio.Semaphore wakes its waiters in turn, and each
\* runner asks for a slot once, so weak fairness covers the gate as well.
\* Dispatches, status reads, clients and the shutdown are up to the
\* environment and carry no fairness.  The payment method and the ceiling
\* only add reasons for a repetition to fail, so the fair runs are those
\* paid on delivery without a ceiling.
FairInit ==
    /\ Init
    /\ kind = "order" =>
          /\ config.payment_method = "cash_on_delivery"
          /\ config.max_cart_value = None

FairSpec ==
    /\ FairInit /\ [][Next]_vars
    /\ WF_vars(BulkComplete)
    /\ WF_vars(RunBulkCheck)
    /\ WF_vars(CheckComplete)
    /\ \A a \in Accounts : WF_vars(OrderRunner(a)) /\ WF_vars(CheckRunner(a))

\* ===================================================================
\* Properties
\* ===================================================================
Resolved == Range(users)

\* the runners that hold a slot of the semaphore
InGate == {a \in Accounts : pc[a] \notin {"idle", "waiting", "done"}}

\* the concurrency limit of the run
GateLimit ==
    IF kind = "order" THEN config.concurrent_browsers ELSE Concurrency(config)

\* C1: in a bulk order run and in a bulk checkpoint run with limit C, at
\* most C runners are inside the gate; every other resolved account is
\* waiting or finished.
C1_GateBound ==
    bpc # "init" /\ bpc # "created" =>
        /\ Cardinality(InGate) <= GateLimit
        /\ \A a \in Resolved \ InGate : pc[a] \in {"waiting", "done"}

\* C1 witness: the gate is full and an account waits for a slot
C1_Witness ==
    /\ Cardinality(InGate) = GateLimit
    /\ \E a \in Resolved : pc[a] = "waiting"

\* C2: when execute_bulk_order returns, every resolved account's runner has
\* run to a terminal outcome, whichever of them failed, and the returned
\* list has one entry per resolved account: that runner's return value.
C2_BatchSurvivesFailures ==
    (kind = "order" /\ bpc = "done") =>
        /\ Len(bulk_results) = Len(users)
        /\ \A i \in 1..Len(users) :
              /\ pc[users[i]] = "done"
              /\ bulk_results[i] = ret[users[i]]
              /\ bulk_results[i].type \in {"list", "dict"}

\* C2 witness: a finished batch in which one account failed at setup and
\* another account completed an order
C2_Witness ==
    /\ kind = "order" /\ bpc = "done"
    /\ \E i, j \in 1..Len(bulk_results) :
          /\ bulk_results[i].type = "dict"
          /\ bulk_results[j].type = "list"
          /\ \E k \in 1..Len(bulk_results[j].items) :
                bulk_results[j].items[k].status = "completed"

\* the account's run completed: it returned outcomes, all of them completed
RunCompleted(a) ==
    /\ ret[a].type = "list"
    /\ ret[a].items # <<>>
    /\ \A k \in 1..Len(ret[a].items) : ret[a].items[k].status = "completed"

\* C3 (as claimed): at the end of a bulk order run, successful is the number
\* of accounts whose run completed, failed the number whose run failed, and
\* errors is 0 when every run completed.
C3_CountsMatchOutcomes ==
    (kind = "order" /\ bpc = "done") =>
        /\ stats.successful = Cardinality({a \in Resolved : RunCompleted(a)})
        /\ stats.failed = Cardinality({a \in Resolved : ~RunCompleted(a)})
        /\ (\A a \in Resolved : RunCompleted(a)) => stats.errors = 0

\* C4 (as claimed): once a full_automation batch has completed, succeeded +
\* failed is the number of repetitions of the batch.
C4_CountsSumToRepetitions ==
    (kind = "order" /\ bpc = "done" /\ config.mode = "full_automation") =>
        stats.successful + stats.failed = Len(users) * config.repetition_count

\* C5 (as claimed): when execute_single_order has returned, the session's
\* browser is closed and its id is not in active_browsers.
C5_BrowserReleased ==
    \A a \in Accounts :
        (kind = "order" /\ pc[a] = "done") =>
            a \notin active_browsers /\ a \notin open_browsers

\* the observed total t breaks the ceiling m, or is not positive
TotalRejected(m, t) == (m # None /\ t > TheValue(m)) \/ t <= 0

\* C6 (as claimed): a repetition whose observed total exceeds the configured
\* ceiling (any m >= 0), or is not positive, ends failed: it never goes on
\* past the total check and its Order is never completed.
C6_TotalCheckFails ==
    \A a \in Accounts :
        /\ pc[a] \in {"address", "place"} =>
              ~TotalRejected(config.max_cart_value, cart_total[a])
        /\ \A k \in 1..Len(orders[a]) :
              orders[a][k].status = "completed" =>
                  ~TotalRejected(config.max_cart_value, orders[a][k].total)

\* the positions of a repetition from marking the Order processing through
\* the order confirmation
RepSteps == {"processing", "cart", "address", "place"}

\* C7: a step of repetition i that fails never leaves the repetition other
\* than through the inner handler; the handler marks only the Order of that
\* repetition failed (its cache entry, and its row when the Store takes the
\* update), and goes on to the loop head unless the page is
\* closed, where repetition i+1 starts whenever i < repetition_count.
C7_FailureContained ==
    [][\A a \in Accounts :
        /\ (pc[a] \in RepSteps /\ pc'[a] # pc[a]) =>
              /\ pc'[a] \in RepSteps \cup {"rep_except", "loop"}
              /\ ret'[a] = ret[a]
        /\ (pc[a] = "rep_except" /\ pc'[a] # pc[a]) =>
              /\ Len(orders'[a]) = Len(orders[a])
              /\ active_orders'[CurrentOrder(a)] = "failed"
              /\ orders'[a][Len(orders[a])] # orders[a][Len(orders[a])] =>
                    orders'[a][Len(orders[a])].status = "failed"
              /\ \A k \in 1..(Len(orders[a]) - 1) : orders'[a][k] = orders[a][k]
              /\ \A b \in Accounts \ {a} : orders'[b] = orders[b]
              /\ pc'[a] = IF page[a] = "closed" THEN "finally" ELSE "loop"
        /\ (pc[a] = "loop" /\ pc'[a] # pc[a]
                /\ rep[a] < config.repetition_count) =>
              rep'[a] = rep[a] + 1
    ]_vars

\* C7 witness: repetition 2 is under way after repetition 1 failed
C7_Witness ==
    \E a \in Accounts :
        /\ rep[a] = 2 /\ pc[a] = "cart"
        /\ Len(results[a]) = 1 /\ results[a][1].status = "failed"

ResolveErrors == {"Address not found", "Card not found",
                  "no card_id or card_details"}

\* C8 (as claimed): when the address or the card is absent at the start of
\* a repetition, only that repetition is aborted: the runner is back at the
\* loop head and its return value is not replaced.
C8_DependencyAbortsOneRepetition ==
    [][\A a \in Accounts :
        (pc[a] = "loop" /\ rep'[a] = rep[a] + 1 /\ pc'[a] # "create") =>
            pc'[a] = "loop" /\ ret'[a] = ret[a]
    ]_vars

\* INIT or AUTH raised for the account
SetupFailed(a) == rep[a] = 0 /\ error[a] # "none"

\* C9: an account whose INIT or AUTH raises returns exactly one failed
\* outcome and has no Order; the step in which it fails changes nothing of
\* the other accounts.
C9_SetupFailureIsolated ==
    [][\A a \in Accounts :
        /\ SetupFailed(a)' =>
              /\ ret'[a].type = "dict" /\ ret'[a].status = "failed"
              /\ orders'[a] = <<>> /\ results'[a] = <<>>
              /\ (kind = "order" /\ bpc' = "done") =>
                    \E i \in 1..Len(users') :
                        users'[i] = a /\ bulk_results'[i] = ret'[a]
        /\ (~SetupFailed(a) /\ SetupFailed(a)') =>
              /\ orders' = orders /\ active_orders' = active_orders
              /\ \A b \in Accounts \ {a} :
                    /\ pc'[b] = pc[b] /\ ret'[b] = ret[b]
                    /\ results'[b] = results[b] /\ rep'[b] = rep[b]
    ]_vars

\* C9 witness: a finished batch in which one account failed at setup and
\* the other completed its order
C9_Witness ==
    /\ kind = "order" /\ bpc = "done"
    /\ \E a, b \in Resolved :
          /\ SetupFailed(a)
          /\ RunCompleted(b) /\ orders[b] # <<>>

\* C10 (as claimed): when the runner of a full_automation session whose
\* setup succeeded has ended, the number of Orders created for the session
\* is the number of repetitions it attempted.
C10_OneOrderPerAttempt ==
    \A a \in Accounts :
        (kind = "order" /\ config.mode = "full_automation"
            /\ pc[a] \in {"finally", "done"} /\ ~SetupFailed(a)) =>
            Len(orders[a]) = rep[a]

\* the Order k of account a takes the status st in this step
Becomes(a, k, st) ==
    /\ k \in 1..Len(orders'[a])
    /\ orders'[a][k].status = st
    /\ (k > Len(orders[a]) \/ orders[a][k].status # st)

\* C11: an Order saved as completed carries a confirmation number and the
\* cart total observed in its repetition; an Order saved as failed carries
\* the message of the exception that ended its repetition and no
\* confirmation number; and the Orders stay so.
C11_OrderFieldsMatchOutcome ==
    [][\A a \in Accounts : \A k \in 1..Len(orders'[a]) :
        /\ Becomes(a, k, "completed") =>
              /\ pc[a] = "place"
              /\ orders'[a][k].total = cart_total[a] /\ cart_total[a] > 0
        /\ Becomes(a, k, "failed") =>
              /\ error[a] # "none"
              /\ orders'[a][k].error_message = error[a]
        /\ orders'[a][k].status = "completed" =>
              /\ orders'[a][k].tira_order_number # "None"
              /\ orders'[a][k].total > 0
        /\ orders'[a][k].status = "failed" =>
              /\ orders'[a][k].tira_order_number = "None"
              /\ orders'[a][k].error_message \notin {"None", "none"}
    ]_vars

\* C11 witness: a session with a failed Order followed by a completed one
C11_Witness ==
    \E a \in Accounts :
        /\ Len(orders[a]) = 2
        /\ orders[a][1].status = "failed"
        /\ orders[a][2].status = "completed"
        /\ orders[a][2].total = 2

\* range resolution finds no account
NoneResolved ==
    get_users_by_range(config.user_range_start, config.user_range_end,
                       storeSize) = <<>>

\* no runner has started and no browser is launched
NothingStarted ==
    /\ \A a \in Accounts : pc[a] = "idle"
    /\ active_browsers = {} /\ open_browsers = {}
    /\ \A a \in Accounts : orders[a] = <<>>

\* C12: when range resolution returns no accounts, a bulk checkpoint task
\* ends failed with the error "No users found in range", zero results and
\* no runner started; a bulk order dispatch ends with the error reported,
\* an empty result, no runner started and no browser launched.
C12_EmptyRangeAborts ==
    NoneResolved =>
        /\ NothingStarted
        /\ ck_results = <<>> /\ bulk_results = <<>>
        /\ (kind = "checkpoint" /\ bpc = "done"
               /\ task.error # "store error") =>
              /\ task.status = "failed"
              /\ task.error = "No users found in range"
        /\ (kind = "order" /\ bpc = "done") =>
              error_msg = "No active users found in range"

\* C12 witness: a checkpoint task that ended on an empty range
C12_Witness ==
    /\ kind = "checkpoint" /\ bpc = "done" /\ NoneResolved
    /\ task.error = "No users found in range"
    /\ config.user_range_start <= config.user_range_end

\* C12 witness: an order dispatch that ended on an empty range
C12_WitnessOrder ==
    /\ kind = "order" /\ bpc = "done" /\ NoneResolved
    /\ error_msg # "None"

\* C13 (as claimed): from the creation of a bulk checkpoint task on, for
\* every range CheckpointConfig accepts, the progress reported by
\* get_task_status is at most the reported total.
C13_ProgressWithinTotal ==
    (kind = "checkpoint" /\ get_task_status.status # "not_found") =>
        get_task_status.progress <= get_task_status.total

Terminal == {"completed", "failed"}

\* C14: the status of a checkpoint task leaves processing for completed
\* only in a state where progress = total, and for failed only as an abort
\* at startup, before any runner started, where progress = 0.
C14_TerminalOnlyWhenDone ==
    [][(kind = "checkpoint" /\ task.status = "processing"
            /\ task'.status \in Terminal) =>
          LET st == get_task_status' IN
          \/ st.status = "completed" /\ st.progress = st.total
          \/ /\ st.status = "failed" /\ st.progress = 0
             /\ bpc = "created" /\ \A a \in Accounts : pc[a] = "idle"
    ]_vars

\* C14 witness: a completed task over two accounts, both recorded
C14_Witness ==
    /\ kind = "checkpoint" /\ task.status = "completed"
    /\ Len(ck_results) = 2 /\ task.total = 2

\* get_users_by_range has returned to the dispatch
RangeResolved ==
    \/ kind = "order" /\ bpc # "init"
    \/ kind = "checkpoint" /\ bpc \in {"gather", "done"}
          /\ task.error # "store error"

\* the requested range satisfies 1 <= start <= end
RangeOrdered ==
    /\ 1 <= config.user_range_start
    /\ config.user_range_start <= config.user_range_end

Max(a, b) == IF a >= b THEN a ELSE b

\* C15 (as claimed): over a Store of N accounts, get_users_by_range(start,
\* end) returns exactly min(end - start + 1, N) accounts for every
\* 1 <= start <= end.
C15_RangeSizeOfStore ==
    (RangeResolved /\ RangeOrdered) =>
        Len(users) = Min(config.user_range_end - config.user_range_start + 1,
                         storeSize)

\* C15 (amended): over a Store of N accounts, get_users_by_range(start, end)
\* returns exactly min(end - start + 1, max(N - start + 1, 0)) accounts,
\* the rows start .. min(end, N) of the Store in ascending order, for every
\* 1 <= start <= end.
C15_RangeSizeFromStart ==
    (RangeResolved /\ RangeOrdered) =>
        /\ Len(users) =
              Min(config.user_range_end - config.user_range_start + 1,
                  Max(storeSize - config.user_range_start + 1, 0))
        /\ \A i \in 1..Len(users) :
              users[i] = config.user_range_start + i - 1

\* C15 witness: a range that starts after the first row of a Store of two
\* accounts and runs to the largest index
C15_Witness ==
    /\ RangeResolved /\ RangeOrdered
    /\ config.user_range_start = 2 /\ config.user_range_end = MaxUsers
    /\ storeSize = 2 /\ users = <<2>>

\* the recorded result of account a agrees with the runner's outcome
Recorded(a) ==
    \E i \in 1..Len(ck_results) :
        /\ ck_results[i].user_id = a
        /\ ck_results[i].status = result[a].status
        /\ ck_results[i].points = result[a].points

C17_AuthFailureKeepsMetric ==
    [][\A a \in Accounts : response'[a] \in {"401", "403"} =>
        /\ result'[a].status = "logged_out"
        /\ pc'[a] # "persist"
        /\ "points" \notin updated_fields'[a]
        /\ stored_points'[a] = stored_points[a]
    ]_vars

\* C17 witness: an account with saved points ended a check on HTTP 403
C17_Witness ==
    \E a \in Accounts :
        /\ response[a] = "403" /\ pc[a] = "done"
        /\ stored_points[a] = "7"

\* the checkpoint of account a ended in an authentication failure
AuthFailed(a) ==
    /\ response[a] \in {"401", "403", "302"}
    /\ pc[a] = "done"

\* C18 (as claimed): when a checkpoint has ended in an authentication
\* failure, the Store holds the status logged_out for the account: some
\* column of its row other than the points was written.
C18_AuthFailureStored ==
    \A a \in Accounts : AuthFailed(a) => updated_fields[a] \ {"points"} # {}

\* C19 (as claimed): update_user_points is called for an account only when
\* its outcome has status success and a metric was found; an outcome with
\* status failed or logged_out never updates the stored points.
C19_PersistOnlyOnSuccess ==
    \A a \in Accounts :
        (pc[a] = "persist" \/ "points" \in updated_fields[a]) =>
            /\ result[a].status = "success"
            /\ result[a].points \notin {"None", "N/A"}

RECURSIVE SuccessSum(_)
\* the sum of the numeric points of the outcomes with status success
SuccessSum(rs) ==
    IF rs = <<>> THEN 0
    ELSE (IF Head(rs).status = "success" /\ IsNumber(Head(rs).points)
          THEN ToNumber(Head(rs).points) ELSE 0) + SuccessSum(Tail(rs))

\* C20 (as claimed): when a bulk checkpoint task is completed, total_points
\* is the sum of the metric values of exactly the outcomes with status
\* success and a numeric metric.
C20_TotalIsSuccessSum ==
    (kind = "checkpoint" /\ task.status = "completed") =>
        task.total_points = SuccessSum(ck_results)

\* the outcomes recorded for account a
OutcomesOf(a) == {i \in 1..Len(ck_results) : ck_results[i].user_id = a}

\* the runner of account a has got its outcome
HasOutcome(a) == kind = "checkpoint" /\ pc[a] \in {"persist", "done"}

\* C21: in every interleaving of the checkpoint runners of a task the
\* result list holds exactly one outcome for each runner that has got its
\* result and none for the others, whatever the Store does with the
\* points; at completion it holds exactly one outcome per resolved account.
C21_OneOutcomePerRunner ==
    kind = "checkpoint" =>
        /\ \A a \in Accounts :
              Cardinality(OutcomesOf(a)) = IF HasOutcome(a) THEN 1 ELSE 0
        /\ task.status = "completed" =>
              /\ Len(ck_results) = Len(users)
              /\ \A a \in Resolved : Cardinality(OutcomesOf(a)) = 1

\* C21 witness: two runners inside the gate together, the second resolved
\* account recorded first and the first one still in its request
C21_Witness ==
    /\ kind = "checkpoint" /\ Len(users) = 2
    /\ pc[users[1]] = "request" /\ pc[users[2]] = "persist"
    /\ Len(ck_results) = 1 /\ ck_results[1].user_id = users[2]

\* C22 (as claimed): whenever get_task_status is called for a checkpoint
\* task, the progress is the number of accounts with a terminal outcome and
\* total_points is the sum of the metrics of the outcomes recorded so far.
C22_StatusReflectsOutcomes ==
    (kind = "checkpoint" /\ get_task_status.status # "not_found") =>
        /\ get_task_status.progress =
              Cardinality({a \in Accounts : response[a] # "none"})
        /\ get_task_status.total_points = SumPoints(ck_results)

\* C23: get_task_status and get_results change no task, counter or result,
\* nor a runner; and a call that follows a call of the same kind with no
\* step of the task in between returns the same value.
C23_ReadsArePure ==
    [][reply'.call # "none" =>
          /\ task' = task /\ ck_results' = ck_results
          /\ pc' = pc /\ bpc' = bpc /\ stored_points' = stored_points
          /\ reply.call = reply'.call => reply'.value = reply.value
    ]_vars

\* C23 witness: the results were fetched while one outcome of two was in
C23_Witness ==
    /\ reply.call = "get_results" /\ Len(reply.value) = 1
    /\ task.status = "processing" /\ task.total = 2

\* the positions of the repetition loop, from the loop head to the handler
LoopSteps == {"loop", "create", "processing", "cart", "address", "place",
              "rep_except"}

\* the synthetic outcome of a login test
LoginTestOutcome == ListReturn(<<[order_id |-> 0, status |-> "completed"]>>)

\* C25: in test_login mode the runner stops after AUTH: it never enters
\* the repetition loop, creates no Order, calls no step of the order
\* pipeline, and, unless the setup raised, returns the single synthetic
\* completed outcome.
C25_TestLoginStopsAfterAuth ==
    (kind = "order" /\ config.mode = "test_login") =>
        \A a \in Accounts :
            /\ pc[a] \notin LoopSteps
            /\ orders[a] = <<>> /\ rep[a] = 0 /\ calls[a] = {}
            /\ cart_total[a] = 0 /\ results[a] = <<>>
            /\ (pc[a] \in {"finally", "done"} /\ ~SetupFailed(a)) =>
                  ret[a] = LoginTestOutcome

\* C25 witness: a login test that has returned its outcome and released
\* the browser
C25_Witness ==
    /\ kind = "order" /\ config.mode = "test_login"
    /\ \E a \in Accounts :
          /\ pc[a] = "done" /\ ret[a] = LoginTestOutcome
          /\ a \notin active_browsers

\* the request is one the claim says is rejected
MustReject ==
    \/ ~dispatch.address_found
    \/ ~dispatch.products_found
    \/ /\ config.payment_method = "card"
       /\ \/ config.card_ref = "card_id" /\ ~dispatch.card_found
          \/ config.card_ref = "none"

\* C27: a dispatch through the control surface is rejected with an HTTP
\* error and no background execution when the address, a product or the
\* stored card of a card payment is absent, or when a card payment has
\* neither a stored card nor inline details; else exactly one bulk
\* execution is scheduled and the reply has status processing.
C27_DispatchValidated ==
    (kind = "api" /\ dispatch.reply # "none") =>
        IF MustReject
        THEN dispatch.reply # "processing" /\ dispatch.scheduled = 0
        ELSE dispatch.reply = "processing" /\ dispatch.scheduled = 1

\* C27 witness: a card payment whose stored card is gone was rejected
C27_Witness ==
    /\ kind = "api" /\ dispatch.reply = "404 Credit card not found"
    /\ dispatch.address_found /\ dispatch.products_found

\* C27 witness: a card payment with inline details was scheduled
C27_WitnessScheduled ==
    /\ kind = "api" /\ dispatch.scheduled = 1
    /\ config.card_ref = "card_details"

\* the Orders of the sessions whose runner has started and not returned
OrdersOfRunning ==
    {<<a, k>> : a \in {b \in Accounts : pc[b] # "done"},
                k \in 1..MaxReps} \cap
    UNION {{<<a, k>> : k \in 1..Len(orders[a])} : a \in Accounts}

SendFailureChangesNothing ==
    \A a \in Accounts : \A store_ok \in BOOLEAN :
        /\ MarkProcessingSend(a, store_ok, FALSE) =>
              MarkProcessingSend(a, store_ok, TRUE)
        /\ PlaceOrderSend(a, store_ok, FALSE) =>
              PlaceOrderSend(a, store_ok, TRUE)
        /\ RepExceptSend(a, store_ok, FALSE) =>
              RepExceptSend(a, store_ok, TRUE)

\* a finished broadcast has tried every connection it started with: each
\* got the message or was dropped, and the dropped ones are the ones whose
\* send raised
EveryClientServed ==
    (kind = "broadcaster" /\ ws.at = "idle") =>
        /\ \A c \in Range(ws.copy) :
              (c \in ws.delivered) # (c \in Range(ws.disconnected))
        /\ Range(ws.disconnected) \cap Range(ws.active_connections) = {}

\* C29: a failing Broadcaster send changes neither the outcomes nor the
\* persisted statuses of a bulk order run (each step taken with a failing
\* send is the step taken with a succeeding send, so the runs coincide),
\* and a client whose send fails is dropped while the remaining clients
\* still get the message.
C29_SendFailureHarmless ==
    [][SendFailureChangesNothing /\ EveryClientServed']_vars

\* C29 witness: a broadcast to three clients has ended; the send to the
\* first one raised, it was dropped, and the two after it got the message
C29_Witness ==
    /\ kind = "broadcaster" /\ ws.at = "idle" /\ Len(ws.copy) = 3
    /\ ws.disconnected = <<ws.copy[1]>>
    /\ ws.delivered = {ws.copy[2], ws.copy[3]}
    /\ ws.copy[1] \notin Range(ws.active_connections)

\* C29 witness: an Order was completed and its update broadcast
C29_WitnessOrder ==
    \E a \in Accounts :
        /\ kind = "order" /\ pc[a] = "done"
        /\ results[a] # <<>> /\ results[a][1].status = "completed"

\* C26: after the application's shutdown handler has run, no browser is
\* open and BrowserManager.active_browsers is empty.
C26_ShutdownReleasesBrowsers ==
    app = "stopped" => active_browsers = {} /\ open_browsers = {}

\* the Orders of a session that are neither completed nor failed
Unfinished(a) ==
    {k \in 1..Len(orders[a]) : orders[a][k].status \in {"pending", "processing"}}

\* C30: within one session at most one Order is pending or processing,
\* the Order of repetition i+1 exists only when the Order of repetition i
\* is completed or failed, and once the runner has returned no Order of
\* the session is pending or processing.
C30_RepetitionsSequential ==
    \A a \in Accounts :
        /\ Cardinality(Unfinished(a)) <= 1
        /\ \A k \in 1..(Len(orders[a]) - 1) : k \notin Unfinished(a)
        /\ pc[a] = "done" => Unfinished(a) = {}

\* the slots the run's semaphore was created with
Slots ==
    IF kind = "order" THEN config.concurrent_browsers ELSE Concurrency(config)

\* the bulk run is over: every resolved account has passed the gate and
\* ended, and every slot is free
Finished ==
    /\ bpc = "done"
    /\ \A a \in Range(users) : pc[a] = "done"
    /\ users # <<>> => semaphore = Slots

\* C24: under fair scheduling a dispatched bulk run, whatever fails in it,
\* ends with every resolved account admitted and at a terminal outcome
\* and with all C slots free.
C24_RunFinishes == (bpc # "init") ~> Finished

\* C24 witness: a run of two accounts through one slot has ended after the
\* first account failed at setup, and the slot is free
C24_Witness ==
    /\ kind = "order" /\ Finished /\ Len(users) = 2 /\ Slots = 1
    /\ ret[users[1]].type = "dict"

\* the place of a status on pending -> processing -> {completed, failed}
Rank(st) == IF st = "pending" THEN 0 ELSE IF st = "processing" THEN 1 ELSE 2

\* C31: the status of an Order only moves forward along
\* pending -> processing -> {completed, failed}; a completed or failed
\* Order keeps its status, and no Order has both a completed and a failed
\* outcome.
C31_StatusMovesForward ==
    [][\A a \in Accounts :
        /\ \A k \in 1..Len(orders[a]) :
              /\ Rank(orders'[a][k].status) >= Rank(orders[a][k].status)
              /\ Rank(orders[a][k].status) = 2 =>
                    orders'[a][k].status = orders[a][k].status
        /\ \A i, j \in 1..Len(results'[a]) :
              results'[a][i].order_id = results'[a][j].order_id => i = j
    ]_vars

\* C31 witness: a session has ended with a completed Order followed by a
\* failed one
C31_Witness ==
    \E a \in Accounts :
        /\ pc[a] = "done" /\ Len(orders[a]) = 2
        /\ orders[a][1].status = "completed"
        /\ orders[a][2].status = "failed"

\* the positions of the closing events among a scope's events
Closings == {i \in 1..Len(scope.events) : scope.events[i] \in {"COMPLETE", "ERROR"}}

\* C32: an AutomationLogger scope emits START on entry and exactly one
\* closing event on exit, COMPLETE when the block ended normally or by a
\* return and ERROR when it ended by an exception, which it lets through.
C32_ScopeEvents ==
    kind = "logger" =>
        /\ scope.at # "outside" =>
              /\ scope.events[1] = "START"
              /\ \A i \in 2..Len(scope.events) : scope.events[i] # "START"
        /\ scope.at = "inside" => Closings = {}
        /\ scope.at = "closed" =>
              /\ Closings = {Len(scope.events)}
              /\ scope.events[Len(scope.events)] =
                    IF scope.how = "raise" THEN "ERROR" ELSE "COMPLETE"
              /\ scope.propagated = (scope.how = "raise")

\* C32 witness: a scope that logged a step was left by an exception
C32_Witness ==
    /\ kind = "logger" /\ scope.at = "closed" /\ scope.how = "raise"
    /\ scope.events = <<"START", "AUTH", "ERROR">>

\* C32 witness: a scope was left by a return inside it
C32_WitnessReturn ==
    /\ kind = "logger" /\ scope.how = "return"
    /\ scope.events = <<"START", "COMPLETE">>

\* the name/value pairs of a sequence of cookies
Pairs(l) == {<<l[i].name, l[i].value>> : i \in 1..Len(l)}

\* the stored bundle is a list, a mapping or a semicolon-delimited string
\* of well-formed name/value pairs, at least one
ThreeEncodings ==
    /\ \/ cred.raw.type \in {"list", "dict"}
       \/ cred.raw.type = "str" /\ cred.raw.text = "semicolon"
    /\ cred.raw.items # <<>>
    /\ \A i \in 1..Len(cred.raw.items) : Usable(cred.raw.items[i])

\* C33: for a bundle stored as a list, as a single mapping or as a
\* semicolon-delimited string, PREPARE_CREDENTIALS yields a non-empty
\* cookie set with the name/value pairs of the input, and the checkpoint
\* goes on to REQUEST.
C33_EncodingsAccepted ==
    (kind = "credentials" /\ cred.step # "prepare" /\ ThreeEncodings) =>
        /\ cred.pw_cookies # <<>>
        /\ Pairs(cred.pw_cookies) = Pairs(cred.raw.items)
        /\ cred.step = "request"

\* C34: in a repetition whose observed total is above the configured
\* ceiling or not positive, neither add_address nor place_order is invoked
\* afterwards.
C34_NoSubmitAfterFailedCheck ==
    \A a \in Accounts :
        (kind = "order"
            /\ TotalRejected(config.max_cart_value, cart_total[a])) =>
            calls[a] \cap {"add_address", "place_order"} = {}

\* C35: during a bulk order run with concurrency limit C the number of
\* entries of BrowserManager.active_browsers, and of open browsers, never
\* exceeds C.
C35_BrowsersWithinLimit ==
    kind = "order" =>
        /\ Cardinality(active_browsers) <= config.concurrent_browsers
        /\ Cardinality(open_browsers) <= config.concurrent_browsers

\* the outcomes of a returned result that carry the id of Order k
OutcomesFor(a, k) ==
    IF ret[a].type = "list"
    THEN {i \in 1..Len(ret[a].items) : ret[a].items[i].order_id = k}
    ELSE {}

\* C36: the result returned by execute_single_order holds exactly one
\* outcome for every Order created for the session, with that Order's id
\* and its final status.
C36_OneOutcomePerOrder ==
    \A a \in Accounts :
        (kind = "order" /\ pc[a] = "done") =>
            \A k \in 1..Len(orders[a]) :
                /\ Cardinality(OutcomesFor(a, k)) = 1
                /\ \A i \in OutcomesFor(a, k) :
                      ret[a].items[i].status = orders[a][k].status

\* C37: every Order listed by get_active_orders has status pending or
\* processing; a completed or failed Order is not listed.
C37_ActiveOrdersUnfinished ==
    kind = "order" =>
        \A id \in get_active_orders :
            active_orders[id] \in {"pending", "processing"}

\* C38: once a checkpoint task is completed or failed, its status and its
\* total_points stay as they are and no outcome is appended to its
\* result list.
C38_TerminalTaskIsFrozen ==
    [][(kind = "checkpoint" /\ task.status \in Terminal) =>
          /\ task'.status = task.status
          /\ task'.total_points = task.total_points
          /\ ck_results' = ck_results
    ]_vars

\* C38 witness: a task over two accounts has completed and its status was
\* read afterwards
C38_Witness ==
    /\ kind = "checkpoint" /\ task.status = "completed"
    /\ task.total = 2 /\ task.total_points > 0
    /\ reply.call = "get_task_status"

\* C39: a status query or a results query for a task id that was never
\* issued is answered 404 'Task not found' and creates no task or result
\* entry.
C39_UnknownTaskNotFound ==
    (kind = "checkpoint" /\ bpc = "init" /\ reply.call # "none") =>
        /\ reply.http = "404 Task not found"
        /\ task.status = "not_found" /\ ck_results = <<>>
====
